---------------------------- MODULE Spec2Model ----------------------------
(***************************************************************************)
(* A model of the multi-level page table of src/src/mlpt.c: the global     *)
(* ptbr, the tables it reaches in memory, the heap that posix_memalign and *)
(* free manage, and the three public operations translate, page_allocate   *)
(* and page_deallocate.                                                    *)
(*                                                                         *)
(* size_t is WORD_BITS wide and every word operation is taken modulo       *)
(* 2^WORD_BITS.  The machine is scaled: config.h sets POBITS to 10 on a    *)
(* 64-bit size_t; here POBITS and the number of address bits above the     *)
(* indexed range are small bounds, and every derived constant (PAGE_SIZE,  *)
(* BITS_PER_LEVEL, ENTRIES_PER_TABLE, the masks) is computed from them by  *)
(* the expressions of mlpt.c.                                              *)
(***************************************************************************)
EXTENDS Integers, Sequences, FiniteSets

\* ------------------------------------------------------------------ bounds

\* config.h: POBITS (10 there; scaled so that a table is enumerable)
POBITS == 4

\* address bits of a size_t above POBITS + LEVELS * BITS_PER_LEVEL
HighBits == 1

\* page-aligned blocks the backing allocator can hand out at one time
NumBlocks == 6

\* ------------------------------------------------------- program constants

LEVELS == 3

SIZEOF_SIZE_T == 8

VALID_FLAG == 1

BITS_PER_LEVEL == POBITS - 3

WORD_BITS == POBITS + LEVELS * BITS_PER_LEVEL + HighBits

WORD == 2 ^ WORD_BITS

\* ~0UL
ALL_ONES == WORD - 1

Word == 0 .. ALL_ONES

\* --------------------------------------------------- size_t bit operations

\* a & b and a | b on the low n bits
RECURSIVE BitAndN(_, _, _)
BitAndN(a, b, n) ==
    IF n = 0 \/ a = 0 \/ b = 0 THEN 0
    ELSE (a % 2) * (b % 2) + 2 * BitAndN(a \div 2, b \div 2, n - 1)

RECURSIVE BitOrN(_, _, _)
BitOrN(a, b, n) ==
    IF n = 0 THEN 0
    ELSE IF a = 0 THEN b % 2 ^ n
    ELSE IF b = 0 THEN a % 2 ^ n
    ELSE (IF a % 2 = 1 \/ b % 2 = 1 THEN 1 ELSE 0)
         + 2 * BitOrN(a \div 2, b \div 2, n - 1)

\* ~a
BitNot(a) == ALL_ONES - a

\* a << k
Shl(a, k) == (a * 2 ^ k) % WORD

\* a >> k
Shr(a, k) == a \div 2 ^ k

\* ------------------------------------------------------- mlpt.c constants

PAGE_SIZE == Shl(1, POBITS)

PAGE_MASK == BitNot(PAGE_SIZE - 1)

ENTRIES_PER_TABLE == PAGE_SIZE \div SIZEOF_SIZE_T

LEVEL_INDEX_MASK == Shl(1, BITS_PER_LEVEL) - 1

\* the masks mlpt.c applies, and a & mask tabulated for each of them
AndMasks == {VALID_FLAG, PAGE_SIZE - 1, PAGE_MASK, LEVEL_INDEX_MASK}

AndTable == [b \in AndMasks |-> [a \in Word |-> BitAndN(a, b, WORD_BITS)]]

\* a & b
BitAnd(a, b) ==
    IF b \in AndMasks THEN AndTable[b][a] ELSE BitAndN(a, b, WORD_BITS)

\* a | b
BitOr(a, b) == BitOrN(a, b, WORD_BITS)

ENTRY_TO_PHYS_ADDR(pte) == BitAnd(pte, PAGE_MASK)

\* (pte & VALID_FLAG) != 0
EntryValid(pte) == BitAnd(pte, VALID_FLAG) # 0

\* ------------------------------------------------------------- the heap

(***************************************************************************)
(* The blocks posix_memalign(&p, PAGE_SIZE, PAGE_SIZE) can return: non-    *)
(* null, PAGE_SIZE-aligned, and lying wholly below the top of the address  *)
(* space.                                                                  *)
(***************************************************************************)
BlockAddrs == { b * PAGE_SIZE : b \in 1 .. NumBlocks }

Indices == 0 .. ENTRIES_PER_TABLE - 1

\* memset(new_page, 0, PAGE_SIZE)
ZeroPage == [i \in Indices |-> 0]

\* the contents of memory the program does not own are indeterminate
Indeterminate == [i \in Indices |-> ALL_ONES]

VARIABLES
    ptbr,              \* size_t ptbr
    mem,               \* block address -> the size_t[ENTRIES_PER_TABLE] in it
    heap,              \* block address -> "free", or what it was obtained for
    op,                \* the call that has just returned: "translate", "allocate",
                       \* "deallocate"; "none" between calls
    va,                \* its argument
    ret,               \* its return value (0 for void)
    allocs,            \* what each allocate_aligned_page of the call returned
    failed,            \* history: some allocate_aligned_page has returned NULL
    fault              \* history: a call freed or accessed a block not allocated

vars == <<ptbr, mem, heap, op, va, ret, allocs, failed, fault>>

\* the memory state an operation works on
Cur ==
    [ptbr |-> ptbr, mem |-> mem, heap |-> heap, allocs |-> <<>>,
     fault |-> FALSE]

\* p points to a block that is allocated
Live(s, p) == p \in BlockAddrs /\ s.heap[p] # "free"

\* table[i], table a size_t*
Load(m, table, i) ==
    IF table \in BlockAddrs THEN m[table][i] ELSE ALL_ONES

\* table[i] = value
Store(m, table, i, value) ==
    IF table \in BlockAddrs THEN [m EXCEPT ![table][i] = value] ELSE m

\* ------------------------------------------------------------ operations

\* extract_level_index shifting by level * BITS_PER_LEVEL alone
extract_level_index_no_offset(virtual_addr, level) ==
    LET shift_amount == level * BITS_PER_LEVEL
    IN  BitAnd(Shr(virtual_addr, shift_amount), LEVEL_INDEX_MASK)

\* extract_level_index without the mask
extract_level_index_no_mask(virtual_addr, level) ==
    LET shift_amount == POBITS + (level * BITS_PER_LEVEL)
    IN  Shr(virtual_addr, shift_amount)

extract_level_index(virtual_addr, level) ==
    LET shift_amount == POBITS + (level * BITS_PER_LEVEL)
    IN  BitAnd(Shr(virtual_addr, shift_amount), LEVEL_INDEX_MASK)

(***************************************************************************)
(* The pointers posix_memalign can store in new_page (0: it returned       *)
(* non-zero, which it may do at any request and must do when no block is   *)
(* left).  On success it hands out a block that is not allocated.  Free    *)
(* blocks that nothing names are interchangeable (every operation treats   *)
(* a block address as an opaque page-aligned word), so the lowest of them  *)
(* stands for all; a free block that ptbr or a valid entry of a live table *)
(* still names is distinguishable, and may be returned as well.            *)
(***************************************************************************)
StillNamed(s) ==
    {s.ptbr} \cup
    UNION { { ENTRY_TO_PHYS_ADDR(s.mem[t][i]) :
                i \in { j \in Indices : EntryValid(s.mem[t][j]) } }
            : t \in { x \in BlockAddrs : s.heap[x] = "table" } }

posix_memalign(s) ==
    LET avail == { a \in BlockAddrs : s.heap[a] = "free" }
        lowest == { a \in avail : \A b \in avail : a <= b }
    IN  lowest \cup (avail \cap StillNamed(s)) \cup {0}

\* allocate_aligned_page without the memset
allocate_aligned_page_no_memset(s, kind) ==
    { IF new_page = 0
      THEN [ptr |-> 0, st |-> [s EXCEPT !.allocs = Append(@, 0)]]
      ELSE [ptr |-> new_page,
            st  |-> [s EXCEPT !.heap[new_page] = kind,
                              !.allocs = Append(@, new_page)]]
      : new_page \in posix_memalign(s) }

\* kind records the call site, for the heap's bookkeeping only
allocate_aligned_page(s, kind) ==
    { IF new_page = 0
      THEN [ptr |-> 0, st |-> [s EXCEPT !.allocs = Append(@, 0)]]
      ELSE [ptr |-> new_page,
            st  |-> [s EXCEPT !.heap[new_page] = kind,
                              !.mem[new_page] = ZeroPage,
                              !.allocs = Append(@, new_page)]]
      : new_page \in posix_memalign(s) }

\* free(p); freeing what is not allocated is undefined, and recorded
free(s, p) ==
    [s EXCEPT !.heap[p] = "free", !.mem[p] = Indeterminate,
              !.fault = @ \/ ~Live(s, p)]

RECURSIVE is_address_valid_from(_, _)
is_address_valid_from(virtual_addr, level) ==
    IF level < 0 THEN TRUE
    ELSE IF extract_level_index(virtual_addr, level) >= ENTRIES_PER_TABLE
         THEN FALSE
         ELSE is_address_valid_from(virtual_addr, level - 1)

is_address_valid(virtual_addr) ==
    is_address_valid_from(virtual_addr, LEVELS - 1)

\* the loop of translate, from `level` down
RECURSIVE translate_walk(_, _, _, _)
translate_walk(m, current_table, virtual_addr, level) ==
    LET page_offset == BitAnd(virtual_addr, PAGE_SIZE - 1)
        table_index == extract_level_index(virtual_addr, level)
        table_entry == Load(m, current_table, table_index)
    IN  IF level < 0 THEN ALL_ONES
        ELSE IF table_index >= ENTRIES_PER_TABLE THEN ALL_ONES
        ELSE IF ~EntryValid(table_entry) THEN ALL_ONES
        ELSE IF level = 0
             THEN BitOr(ENTRY_TO_PHYS_ADDR(table_entry), page_offset)
             ELSE translate_walk(m, ENTRY_TO_PHYS_ADDR(table_entry),
                                 virtual_addr, level - 1)

translate(s, virtual_addr) ==
    IF s.ptbr = 0 THEN ALL_ONES
    ELSE translate_walk(s.mem, s.ptbr, virtual_addr, LEVELS - 1)

\* translate building the root when there is none
translate_call_lazy_root(s, virtual_addr) ==
    LET avail == { a \in BlockAddrs : s.heap[a] = "free" }
        root == CHOOSE a \in avail : \A b \in avail : a <= b
    IN  [ret |-> translate(s, virtual_addr),
         st  |-> IF s.ptbr = 0 /\ avail # {}
                 THEN [s EXCEPT !.ptbr = root, !.heap[root] = "table",
                                !.mem[root] = ZeroPage]
                 ELSE s]

\* [ret, st]: what the call returns and the state it ends in; the body only reads
translate_call(s, virtual_addr) ==
    [ret |-> translate(s, virtual_addr), st |-> s]

(***************************************************************************)
(* page_allocate can end in several states, one for every choice of the    *)
(* allocator, so its parts yield sets.  allocate_tables is the loop over   *)
(* the levels LEVELS-1..1, from `level` down: [st, table, ok] is the state *)
(* it leaves, the table it stands in, and whether it ran to its end (no    *)
(* `return` on a NULL new_table).                                          *)
(***************************************************************************)
\* allocate_tables installing a new table at every level, valid entry or not
RECURSIVE allocate_tables_always_new(_, _, _, _)
allocate_tables_always_new(s, current_table, virtual_addr, level) ==
    IF ~(level > 0) THEN {[st |-> s, table |-> current_table, ok |-> TRUE]}
    ELSE LET table_index == extract_level_index(virtual_addr, level)
         IN  UNION {
                 IF o.ptr = 0
                 THEN {[st |-> o.st, table |-> current_table, ok |-> FALSE]}
                 ELSE allocate_tables_always_new(
                          [o.st EXCEPT !.mem =
                              Store(@, current_table, table_index,
                                    BitOr(BitAnd(o.ptr, PAGE_MASK), VALID_FLAG))],
                          o.ptr, virtual_addr, level - 1)
                 : o \in allocate_aligned_page(s, "table") }

RECURSIVE allocate_tables(_, _, _, _)
allocate_tables(s, current_table, virtual_addr, level) ==
    IF ~(level > 0) THEN {[st |-> s, table |-> current_table, ok |-> TRUE]}
    ELSE LET table_index == extract_level_index(virtual_addr, level)
             descend(t) ==
                 allocate_tables(
                     t,
                     ENTRY_TO_PHYS_ADDR(Load(t.mem, current_table, table_index)),
                     virtual_addr, level - 1)
         IN  IF ~EntryValid(Load(s.mem, current_table, table_index))
             THEN UNION {
                      IF o.ptr = 0
                      THEN {[st |-> o.st, table |-> current_table, ok |-> FALSE]}
                      ELSE descend([o.st EXCEPT !.mem =
                               Store(@, current_table, table_index,
                                     BitOr(BitAnd(o.ptr, PAGE_MASK), VALID_FLAG))])
                      : o \in allocate_aligned_page(s, "table") }
             ELSE descend(s)

\* allocate_final_page installing the page without VALID_FLAG
allocate_final_page_no_flag(s, current_table, virtual_addr) ==
    LET table_index == extract_level_index(virtual_addr, 0)
    IN  IF ~EntryValid(Load(s.mem, current_table, table_index))
        THEN { IF o.ptr = 0 THEN o.st
               ELSE [o.st EXCEPT !.mem =
                        Store(@, current_table, table_index,
                              BitAnd(o.ptr, PAGE_MASK))]
               : o \in allocate_aligned_page(s, "page") }
        ELSE {s}

\* allocate_final_page without the test of the entry
allocate_final_page_always(s, current_table, virtual_addr) ==
    LET table_index == extract_level_index(virtual_addr, 0)
    IN  { IF o.ptr = 0 THEN o.st
          ELSE [o.st EXCEPT !.mem =
                   Store(@, current_table, table_index,
                         BitOr(BitAnd(o.ptr, PAGE_MASK), VALID_FLAG))]
          : o \in allocate_aligned_page(s, "page") }

\* allocate_final_page installing current_table in place of a new page
allocate_final_page_reuses_table(s, current_table, virtual_addr) ==
    LET table_index == extract_level_index(virtual_addr, 0)
    IN  IF ~EntryValid(Load(s.mem, current_table, table_index))
        THEN {[s EXCEPT !.mem =
                  Store(@, current_table, table_index,
                        BitOr(BitAnd(current_table, PAGE_MASK), VALID_FLAG))]}
        ELSE {s}

\* "Allocate final page if needed"
allocate_final_page(s, current_table, virtual_addr) ==
    LET table_index == extract_level_index(virtual_addr, 0)
    IN  IF ~EntryValid(Load(s.mem, current_table, table_index))
        THEN { IF o.ptr = 0 THEN o.st
               ELSE [o.st EXCEPT !.mem =
                        Store(@, current_table, table_index,
                              BitOr(BitAnd(o.ptr, PAGE_MASK), VALID_FLAG))]
               : o \in allocate_aligned_page(s, "page") }
        ELSE {s}

\* allocate_root building a root whether or not there is one
allocate_root_always(s) ==
    { IF o.ptr = 0 THEN [st |-> o.st, ok |-> FALSE]
      ELSE [st |-> [o.st EXCEPT !.ptbr = o.ptr], ok |-> TRUE]
      : o \in allocate_aligned_page(s, "table") }

\* "Initialize root page table if needed": [st, ok], ok unless root_table is NULL
allocate_root(s) ==
    IF s.ptbr = 0
    THEN { IF o.ptr = 0 THEN [st |-> o.st, ok |-> FALSE]
           ELSE [st |-> [o.st EXCEPT !.ptbr = o.ptr], ok |-> TRUE]
           : o \in allocate_aligned_page(s, "table") }
    ELSE {[st |-> s, ok |-> TRUE]}

\* page_allocate undoing what it did when a request for a table fails
page_allocate_rolls_back(s, virtual_addr) ==
    IF ~is_address_valid(virtual_addr) THEN {s}
    ELSE UNION {
             IF ~r.ok THEN {r.st}
             ELSE UNION {
                      IF ~w.ok THEN {[s EXCEPT !.allocs = w.st.allocs]}
                      ELSE allocate_final_page(w.st, w.table, virtual_addr)
                      : w \in allocate_tables(r.st, r.st.ptbr, virtual_addr,
                                              LEVELS - 1) }
             : r \in allocate_root(s) }

page_allocate(s, virtual_addr) ==
    IF ~is_address_valid(virtual_addr) THEN {s}
    ELSE UNION {
             IF ~r.ok THEN {r.st}
             ELSE UNION {
                      IF ~w.ok THEN {w.st}
                      ELSE allocate_final_page(w.st, w.table, virtual_addr)
                      : w \in allocate_tables(r.st, r.st.ptbr, virtual_addr,
                                              LEVELS - 1) }
             : r \in allocate_root(s) }

\* record_path without the test of the leaf entry
RECURSIVE record_path_unchecked_leaf(_, _, _, _, _)
record_path_unchecked_leaf(m, current_table, virtual_addr, level, tables) ==
    LET filled == [tables EXCEPT ![level] = current_table]
        entry == Load(m, current_table, extract_level_index(virtual_addr, level))
    IN  IF level = 0 THEN [found |-> TRUE, tables |-> filled]
        ELSE IF ~EntryValid(entry) THEN [found |-> FALSE, tables |-> filled]
        ELSE record_path_unchecked_leaf(m, ENTRY_TO_PHYS_ADDR(entry),
                                        virtual_addr, level - 1, filled)

\* the first loop of page_deallocate, from `level` down: tables[] and whether
\* every entry on the path is valid
RECURSIVE record_path(_, _, _, _, _)
record_path(m, current_table, virtual_addr, level, tables) ==
    LET filled == [tables EXCEPT ![level] = current_table]
        entry == Load(m, current_table, extract_level_index(virtual_addr, level))
    IN  IF ~EntryValid(entry) THEN [found |-> FALSE, tables |-> filled]
        ELSE IF level > 0
             THEN record_path(m, ENTRY_TO_PHYS_ADDR(entry), virtual_addr,
                              level - 1, filled)
             ELSE [found |-> TRUE, tables |-> filled]

\* page_deallocate without its clean-up loop
cleanup_tables_none(s, tables, virtual_addr, level) == s

\* the clean-up loop stopping after the leaf-level table
cleanup_tables_one_level(s, tables, virtual_addr, level) ==
    LET table_empty ==
            \A i \in Indices : ~EntryValid(Load(s.mem, tables[level - 1], i))
    IN  IF table_empty
        THEN [free(s, tables[level - 1]) EXCEPT !.mem =
                 Store(@, tables[level],
                       extract_level_index(virtual_addr, level), 0)]
        ELSE s

\* the clean-up loop freeing an empty table without clearing its parent's entry
RECURSIVE cleanup_tables_keeps_entry(_, _, _, _)
cleanup_tables_keeps_entry(s, tables, virtual_addr, level) ==
    IF ~(level < LEVELS) THEN s
    ELSE LET table_empty ==
                 \A i \in Indices : ~EntryValid(Load(s.mem, tables[level - 1], i))
         IN  IF table_empty
             THEN cleanup_tables_keeps_entry(free(s, tables[level - 1]), tables,
                                             virtual_addr, level + 1)
             ELSE s

\* the clean-up loop passing an empty table to free twice
RECURSIVE cleanup_tables_double_free(_, _, _, _)
cleanup_tables_double_free(s, tables, virtual_addr, level) ==
    IF ~(level < LEVELS) THEN s
    ELSE LET table_empty ==
                 \A i \in Indices : ~EntryValid(Load(s.mem, tables[level - 1], i))
         IN  IF table_empty
             THEN LET freed == free(free(s, tables[level - 1]), tables[level - 1])
                      cleared == [freed EXCEPT !.mem =
                                     Store(@, tables[level],
                                           extract_level_index(virtual_addr, level), 0)]
                  IN  cleanup_tables_double_free(cleared, tables, virtual_addr,
                                                 level + 1)
             ELSE s

\* the clean-up loop of page_deallocate, from `level` up
RECURSIVE cleanup_tables(_, _, _, _)
cleanup_tables(s, tables, virtual_addr, level) ==
    IF ~(level < LEVELS) THEN s
    ELSE LET table_empty ==
                 \A i \in Indices : ~EntryValid(Load(s.mem, tables[level - 1], i))
             scanned == [s EXCEPT !.fault = @ \/ ~Live(s, tables[level - 1])]
         IN  IF table_empty
             THEN LET freed == free(scanned, tables[level - 1])
                      cleared == [freed EXCEPT
                                     !.mem = Store(@, tables[level],
                                         extract_level_index(virtual_addr, level), 0),
                                     !.fault = @ \/ ~Live(freed, tables[level])]
                  IN  cleanup_tables(cleared, tables, virtual_addr, level + 1)
             ELSE scanned

\* page_deallocate without the store that clears the leaf entry
page_deallocate_keeps_leaf(s, virtual_addr) ==
    IF s.ptbr = 0 THEN [ret |-> 0, st |-> s]
    ELSE LET path == record_path(s.mem, s.ptbr, virtual_addr, LEVELS - 1,
                                 [l \in 0 .. LEVELS - 1 |-> 0])
         IN  IF ~path.found THEN [ret |-> 0, st |-> s]
             ELSE [ret |-> 1,
                   st  |-> cleanup_tables(s, path.tables, virtual_addr, 1)]

\* page_deallocate whose clean-up goes on to the root: an empty root is freed
\* and ptbr reset
page_deallocate_frees_root(s, virtual_addr) ==
    IF s.ptbr = 0 THEN [ret |-> 0, st |-> s]
    ELSE LET path == record_path(s.mem, s.ptbr, virtual_addr, LEVELS - 1,
                                 [l \in 0 .. LEVELS - 1 |-> 0])
         IN  IF ~path.found THEN [ret |-> 0, st |-> s]
             ELSE LET cleared == [s EXCEPT !.mem =
                                     Store(@, path.tables[0],
                                           extract_level_index(virtual_addr, 0), 0)]
                      cleaned == cleanup_tables(cleared, path.tables,
                                                virtual_addr, 1)
                      root_empty ==
                          \A i \in Indices :
                              ~EntryValid(Load(cleaned.mem, cleaned.ptbr, i))
                  IN  [ret |-> 1,
                       st  |-> IF root_empty
                               THEN [free(cleaned, cleaned.ptbr) EXCEPT !.ptbr = 0]
                               ELSE cleaned]

\* page_deallocate clearing the whole leaf table in place of the leaf entry
page_deallocate_clears_table(s, virtual_addr) ==
    IF s.ptbr = 0 THEN [ret |-> 0, st |-> s]
    ELSE LET path == record_path(s.mem, s.ptbr, virtual_addr, LEVELS - 1,
                                 [l \in 0 .. LEVELS - 1 |-> 0])
         IN  IF ~path.found THEN [ret |-> 0, st |-> s]
             ELSE LET cleared == [s EXCEPT !.mem[path.tables[0]] = ZeroPage]
                  IN  [ret |-> 1,
                       st  |-> cleanup_tables(cleared, path.tables, virtual_addr, 1)]

\* [ret, st]: the return value and the state page_deallocate ends in
page_deallocate(s, virtual_addr) ==
    IF s.ptbr = 0 THEN [ret |-> 0, st |-> s]
    ELSE LET path == record_path(s.mem, s.ptbr, virtual_addr, LEVELS - 1,
                                 [l \in 0 .. LEVELS - 1 |-> 0])
         IN  IF ~path.found THEN [ret |-> 0, st |-> s]
             ELSE LET cleared == [s EXCEPT
                                     !.mem = Store(@, path.tables[0],
                                         extract_level_index(virtual_addr, 0), 0),
                                     !.fault = @ \/ ~Live(s, path.tables[0])]
                  IN  [ret |-> 1,
                       st  |-> cleanup_tables(cleared, path.tables, virtual_addr, 1)]

\* ----------------------------------------------------------------- calls

\* PageAddr(i2, i1, i0): the first address of the page with these level indices
PageAddr(i2, i1, i0) ==
    Shl(i2, POBITS + 2 * BITS_PER_LEVEL) + Shl(i1, POBITS + BITS_PER_LEVEL)
    + Shl(i0, POBITS)

TopIndex == ENTRIES_PER_TABLE - 1

\* the addresses the callers pass
Addrs ==
    { PageAddr(0, 0, 0),                                \* 0x0
      PageAddr(0, 0, TopIndex) + (PAGE_SIZE - 1),       \* same leaf table
      PageAddr(0, TopIndex, 0) + 1,                     \* same level-1 table
      PageAddr(TopIndex, 0, 0) + 2,                     \* shares the root only
      Shl(1, WORD_BITS - HighBits) + PageAddr(0, 0, 0) + 3 }  \* a high bit set

Init ==
    /\ ptbr = 0
    /\ mem = [a \in BlockAddrs |-> Indeterminate]
    /\ heap = [a \in BlockAddrs |-> "free"]
    /\ op = "none"
    /\ va = 0
    /\ ret = 0
    /\ allocs = <<>>
    /\ failed = FALSE
    /\ fault = FALSE

Translate(v) ==
    /\ op = "none"
    /\ \E r \in {translate_call(Cur, v)} :
           /\ op' = "translate"
           /\ va' = v
           /\ ret' = r.ret
           /\ ptbr' = r.st.ptbr
           /\ mem' = r.st.mem
           /\ heap' = r.st.heap
           /\ allocs' = r.st.allocs
           /\ fault' = (fault \/ r.st.fault)
           /\ UNCHANGED failed

PageAllocate(v) ==
    /\ op = "none"
    /\ \E t \in page_allocate(Cur, v) :
           /\ op' = "allocate"
           /\ va' = v
           /\ ret' = 0
           /\ ptbr' = t.ptbr
           /\ mem' = t.mem
           /\ heap' = t.heap
           /\ allocs' = t.allocs
           /\ failed' = (failed \/ \E k \in 1 .. Len(t.allocs) : t.allocs[k] = 0)
           /\ fault' = (fault \/ t.fault)

PageDeallocate(v) ==
    /\ op = "none"
    /\ \E r \in {page_deallocate(Cur, v)} :
           /\ op' = "deallocate"
           /\ va' = v
           /\ ret' = r.ret
           /\ ptbr' = r.st.ptbr
           /\ mem' = r.st.mem
           /\ heap' = r.st.heap
           /\ allocs' = r.st.allocs
           /\ fault' = (fault \/ r.st.fault)
           /\ UNCHANGED failed

\* the caller goes on: what it passed and what it got back are forgotten
Return ==
    /\ op # "none"
    /\ op' = "none"
    /\ va' = 0
    /\ ret' = 0
    /\ allocs' = <<>>
    /\ UNCHANGED <<ptbr, mem, heap, failed, fault>>

Next ==
    \/ \E v \in Addrs :
          \/ Translate(v)
          \/ PageAllocate(v)
          \/ PageDeallocate(v)
    \/ Return

Spec == Init /\ [][Next]_vars

\* ------------------------------------------- what the properties speak of

\* the memory state a step ends in
After ==
    [ptbr |-> ptbr', mem |-> mem', heap |-> heap', allocs |-> <<>>,
     fault |-> FALSE]

\* translate(v) in the current state
Translation(v) == translate(Cur, v)

\* the low POBITS bits of a word
LowBits(w) == w % PAGE_SIZE

\* no request of the last call failed
AllSucceeded == \A k \in 1 .. Len(allocs) : allocs[k] # 0

SamePage(v1, v2) == v1 \div PAGE_SIZE = v2 \div PAGE_SIZE

(***************************************************************************)
(* A reference walk in memory state s, stated with arithmetic on the       *)
(* address and on the entries instead of the masks and shifts of mlpt.c:   *)
(* RefTables(s, v)[l] is the table that holds v's level-l entry,           *)
(* RefEntry(s, v, l) that entry.                                           *)
(***************************************************************************)
RefIndex(v, l) == (v \div 2 ^ (POBITS + l * BITS_PER_LEVEL)) % ENTRIES_PER_TABLE

RefValid(e) == e % 2 = 1

RefAddr(e) == e - (e % PAGE_SIZE)

RefLoad(s, t, i) == IF t \in BlockAddrs THEN s.mem[t][i] ELSE 0

RefTables(s, v) ==
    LET t[k \in 0 .. LEVELS - 1] ==
            IF k = 0 THEN s.ptbr
            ELSE RefAddr(RefLoad(s, t[k - 1], RefIndex(v, LEVELS - k)))
    IN  [l \in 0 .. LEVELS - 1 |-> t[LEVELS - 1 - l]]

RefEntry(s, v, l) == RefLoad(s, RefTables(s, v)[l], RefIndex(v, l))

\* the levels of v's path whose entry, and every entry above it, is valid
RefValidLevels(s, v) ==
    IF s.ptbr = 0 THEN {}
    ELSE LET T == RefTables(s, v)
             E == [l \in 0 .. LEVELS - 1 |-> RefLoad(s, T[l], RefIndex(v, l))]
         IN  { l \in 0 .. LEVELS - 1 :
                 \A k \in l .. LEVELS - 1 : RefValid(E[k]) }

\* ptbr is set and every entry on v's path, levels LEVELS-1 down to 0, is valid
RefMapped(s, v) == 0 \in RefValidLevels(s, v)

RefTranslate(s, v) ==
    IF RefMapped(s, v) THEN RefAddr(RefEntry(s, v, 0)) + (v % PAGE_SIZE)
    ELSE ALL_ONES

\* the entries of the table at address t that are valid
ValidIndices(s, t) == { i \in Indices : RefValid(RefLoad(s, t, i)) }

\* the tables that hold level-l entries and are reached from ptbr
RECURSIVE TablesAt(_, _)
TablesAt(s, l) ==
    IF l = LEVELS - 1 THEN (IF s.ptbr = 0 THEN {} ELSE {s.ptbr})
    ELSE UNION { { RefAddr(RefLoad(s, t, i)) : i \in ValidIndices(s, t) }
                 : t \in TablesAt(s, l + 1) }

\* ---------------------------------------------------------------- claims

(***************************************************************************)
(* C1 as stated: right after page_allocate(v) returns, for an in-bounds v, *)
(* translate(v) is not the all-ones sentinel and its low POBITS bits are   *)
(* those of v.                                                             *)
(***************************************************************************)
C1_RoundTrip ==
    (op = "allocate" /\ is_address_valid(va)) =>
        /\ Translation(va) # ALL_ONES
        /\ LowBits(Translation(va)) = LowBits(va)

(***************************************************************************)
(* C1 amended: right after a page_allocate(v) in which no request to the   *)
(* backing allocator failed, for an in-bounds v, translate(v) is not the   *)
(* all-ones sentinel and its low POBITS bits are those of v.               *)
(***************************************************************************)
C1_RoundTripAllocated ==
    (op = "allocate" /\ is_address_valid(va) /\ AllSucceeded) =>
        /\ Translation(va) # ALL_ONES
        /\ LowBits(Translation(va)) = LowBits(va)

\* a first page_allocate built the root, two tables and the page of an
\* address with a non-zero offset
C1_Witness ==
    /\ op = "allocate"
    /\ Len(allocs) = LEVELS + 1
    /\ AllSucceeded
    /\ LowBits(va) # 0
    /\ Translation(va) # ALL_ONES

(***************************************************************************)
(* C2: whenever v's page is mapped (translate(v) is not the sentinel), a   *)
(* call page_deallocate(v) returns 1 and translate(v) is the all-ones      *)
(* sentinel right after it.                                                *)
(***************************************************************************)
C2_DeallocateUnmaps ==
    [][\A v \in Addrs :
          (op' = "deallocate" /\ va' = v /\ Translation(v) # ALL_ONES) =>
              \A post \in {After} :
                  ret' = 1 /\ translate(post, v) = ALL_ONES]_vars

\* page_deallocate returned 1 while another page stays mapped
C2_Witness ==
    /\ op = "deallocate"
    /\ ret = 1
    /\ Translation(va) = ALL_ONES
    /\ \E v \in Addrs : Translation(v) # ALL_ONES

(***************************************************************************)
(* C3: if ptbr is 0 or some entry on v's path from the root to the leaf is *)
(* invalid, page_deallocate(v) returns 0 and changes nothing: ptbr, every  *)
(* table and the set of allocated blocks stay as they were.                *)
(***************************************************************************)
C3_DeallocateUnmapped ==
    [][\A v \in Addrs :
          (op' = "deallocate" /\ va' = v /\ ~RefMapped(Cur, v)) =>
              (ret' = 0 /\ UNCHANGED <<ptbr, mem, heap>>)]_vars

\* page_deallocate returned 0 on a path whose tables exist but whose leaf entry
\* is invalid, in a table that holds another mapping
C3_Witness ==
    /\ op = "deallocate"
    /\ ret = 0
    /\ RefValidLevels(Cur, va) = 1 .. LEVELS - 1
    /\ \E v \in Addrs : RefMapped(Cur, v) /\ RefTables(Cur, v) = RefTables(Cur, va)

(***************************************************************************)
(* C4: if v's page is already mapped, page_allocate(v) is a no-op: it      *)
(* requests no block, changes no entry of any table and not ptbr, leaves   *)
(* the set of allocated blocks as it was, and translate(v) returns what it *)
(* returned before the call.                                               *)
(***************************************************************************)
C4_AllocateIdempotent ==
    [][\A v \in Addrs :
          (op' = "allocate" /\ va' = v /\ Translation(v) # ALL_ONES) =>
              \A post \in {After} :
                  /\ allocs' = <<>>
                  /\ UNCHANGED <<ptbr, mem, heap>>
                  /\ translate(post, v) = Translation(v)]_vars

\* a page_allocate of a mapped address that requested nothing
C4_Witness ==
    /\ op = "allocate"
    /\ allocs = <<>>
    /\ Translation(va) # ALL_ONES
    /\ LowBits(Translation(va)) = LowBits(va)

(***************************************************************************)
(* C5: translate agrees with the reference walk in every reachable state:  *)
(* translate(v) is the all-ones sentinel exactly when ptbr is unset or an  *)
(* entry on v's path is invalid (so for every v while nothing was ever     *)
(* allocated); otherwise it is the page-aligned address bits of the        *)
(* level-0 entry or-ed with the low POBITS bits of v, which is never the   *)
(* all-ones sentinel.  The value a translate call returns is that value.   *)
(***************************************************************************)
C5_TranslateAgrees ==
    /\ \A v \in Addrs :
          /\ Translation(v) = RefTranslate(Cur, v)
          /\ (Translation(v) = ALL_ONES) <=> ~RefMapped(Cur, v)
    /\ (\A a \in BlockAddrs : heap[a] = "free") =>
          \A v \in Addrs : Translation(v) = ALL_ONES
    /\ op = "translate" => ret = RefTranslate(Cur, va)

\* a translate call returned a physical address with a non-zero offset
C5_Witness ==
    /\ op = "translate"
    /\ ret # ALL_ONES
    /\ LowBits(ret) = LowBits(va)
    /\ LowBits(va) # 0

(***************************************************************************)
(* C6: translate is read-only: a call translate(v) leaves ptbr, every      *)
(* table and the set of allocated blocks as they were, and requests no     *)
(* block from the backing allocator.                                       *)
(***************************************************************************)
C6_TranslateReadOnly ==
    [][\A v \in Addrs :
          (op' = "translate" /\ va' = v) =>
              (UNCHANGED <<ptbr, mem, heap>> /\ allocs' = <<>>)]_vars

\* a translate call that met an invalid entry below the root, in tables that
\* hold the mapping of another page
C6_Witness ==
    /\ op = "translate"
    /\ ret = ALL_ONES
    /\ RefValidLevels(Cur, va) # {}
    /\ \E v \in Addrs : RefMapped(Cur, v)

(***************************************************************************)
(* C7: page_allocate(v1) leaves translate(v2) as it was for every mapped   *)
(* v2 on another virtual page, whether or not its requests succeed; and    *)
(* every entry on v1's path that was valid (with all entries above it) is  *)
(* left as it was, the call requesting a block only for the root if there  *)
(* was none and for the levels whose entry was not valid.                  *)
(***************************************************************************)
C7_AllocateIndependent ==
    [][\A v1 \in Addrs :
          (op' = "allocate" /\ va' = v1) =>
              \A post \in {After}, reused \in {RefValidLevels(Cur, v1)} :
                  /\ \A v2 \in Addrs :
                        (~SamePage(v1, v2) /\ Translation(v2) # ALL_ONES) =>
                            translate(post, v2) = Translation(v2)
                  /\ \A l \in reused :
                        /\ RefTables(post, v1)[l] = RefTables(Cur, v1)[l]
                        /\ RefEntry(post, v1, l) = RefEntry(Cur, v1, l)
                  /\ Len(allocs') <=
                        (IF ptbr = 0 THEN 1 ELSE 0)
                        + LEVELS - Cardinality(reused)]_vars

\* a page_allocate that requested the page alone, in a leaf table that already
\* held the mapping of another page
C7_Witness ==
    /\ op = "allocate"
    /\ Len(allocs) = 1
    /\ AllSucceeded
    /\ \E v2 \in Addrs :
          /\ ~SamePage(va, v2)
          /\ Translation(v2) # ALL_ONES
          /\ RefTables(Cur, v2) = RefTables(Cur, va)

\* every valid entry at a level >= 1 that is reached from ptbr names a live table
ChildrenLive(s) ==
    \A l \in 1 .. LEVELS - 1 : \A t \in TablesAt(s, l) :
        \A i \in ValidIndices(s, t) :
            LET child == RefAddr(RefLoad(s, t, i))
            IN  child \in BlockAddrs /\ s.heap[child] = "table"

\* and that table has a valid entry
ChildrenNonEmpty(s) ==
    \A l \in 1 .. LEVELS - 1 : \A t \in TablesAt(s, l) :
        \A i \in ValidIndices(s, t) :
            ValidIndices(s, RefAddr(RefLoad(s, t, i))) # {}

C9_LeafOwnership ==
    { a \in BlockAddrs : heap[a] = "page" }
        = UNION { { RefAddr(RefLoad(Cur, t, i)) : i \in ValidIndices(Cur, t) }
                  : t \in TablesAt(Cur, 0) }

(***************************************************************************)
(* C10: ptbr is 0 initially; it becomes non-zero only in a page_allocate   *)
(* call whose first request, the one for the root table, succeeds, and     *)
(* then names the block of that request; once non-zero it never changes in *)
(* any later call, and the root table is never freed, not even when        *)
(* page_deallocate leaves it without a valid entry.                        *)
(***************************************************************************)
C10_RootLifecycle ==
    /\ ptbr = 0
    /\ [][/\ (ptbr = 0 /\ ptbr' # 0) =>
                /\ op' = "allocate"
                /\ allocs' # <<>>
                /\ allocs'[1] = ptbr'
                /\ heap[ptbr'] = "free"
                /\ heap'[ptbr'] = "table"
          /\ ptbr # 0 =>
                /\ ptbr' = ptbr
                /\ heap'[ptbr] = "table"]_vars

\* page_deallocate removed the last mapping: the root is live and empty
C10_Witness ==
    /\ op = "deallocate"
    /\ ret = 1
    /\ ptbr # 0
    /\ heap[ptbr] = "table"
    /\ ValidIndices(Cur, ptbr) = {}

\* the tables that hold an entry of v's path: the root, and every table that a
\* valid entry of the path (valid with all entries above it) names
PathTables(s, v) ==
    { RefTables(s, v)[l] : l \in { k \in 0 .. LEVELS - 1 :
          s.ptbr # 0 /\ (k = LEVELS - 1 \/ k + 1 \in RefValidLevels(s, v)) } }

(***************************************************************************)
(* C11: when a request to the backing allocator fails during               *)
(* page_allocate(v), the call returns at once (the failed request is its   *)
(* last); if the request was for the root, ptbr stays 0 and nothing        *)
(* changes; the tables the call created before the failure stay allocated  *)
(* and installed on v's path; translate(v) is the all-ones sentinel; and   *)
(* translate of every address that was mapped is what it was.              *)
(***************************************************************************)
C11_FailureNotRolledBack ==
    [][\A v \in Addrs :
          (/\ op' = "allocate"
           /\ va' = v
           /\ \E k \in 1 .. Len(allocs') : allocs'[k] = 0) =>
              \A post \in {After}, n \in {Len(allocs')} :
                  /\ allocs'[n] = 0
                  /\ \A k \in 1 .. n - 1 : allocs'[k] # 0
                  /\ (ptbr = 0 /\ n = 1) =>
                        (ptbr' = 0 /\ UNCHANGED <<mem, heap>>)
                  /\ \A k \in 1 .. n - 1 :
                        /\ heap'[allocs'[k]] = "table"
                        /\ allocs'[k] \in PathTables(post, v)
                  /\ translate(post, v) = ALL_ONES
                  /\ \A v2 \in Addrs :
                        Translation(v2) # ALL_ONES =>
                            translate(post, v2) = Translation(v2)]_vars

\* a page_allocate built a table and then met a failing request, while another
\* page is mapped
C11_Witness ==
    /\ op = "allocate"
    /\ Len(allocs) >= 2
    /\ allocs[Len(allocs)] = 0
    /\ PathTables(Cur, va) # {ptbr}
    /\ \E v \in Addrs : Translation(v) # ALL_ONES


\* v1 and v2 select the same entry at every level
SamePath(v1, v2) == \A l \in 0 .. LEVELS - 1 : RefIndex(v1, l) = RefIndex(v2, l)

\* the pages that valid level-0 entries reached from ptbr name
MappedPages(s) ==
    UNION { { RefAddr(RefLoad(s, t, i)) : i \in ValidIndices(s, t) }
            : t \in TablesAt(s, 0) }

\* the blocks that are allocated as tables
LiveTables(s) == { a \in BlockAddrs : s.heap[a] = "table" }

(***************************************************************************)
(* C13: as long as every request to the backing allocator has succeeded,   *)
(* whenever no page is mapped the root has no valid entry and the root is  *)
(* the only live table: every other table ever created has been freed.     *)
(* And a page_deallocate(v1) that returns 1 (one that returns 0 changes    *)
(* nothing, C3) leaves every table on the path of a mapping v2 that        *)
(* selects another leaf entry allocated, and those of them that are not on *)
(* v1's path unmodified.                                                   *)
(***************************************************************************)
C13_FullReclamation ==
    /\ [](( ~failed /\ ptbr # 0 /\ MappedPages(Cur) = {}) =>
              /\ ValidIndices(Cur, ptbr) = {}
              /\ LiveTables(Cur) = {ptbr})
    /\ [][(op' = "deallocate" /\ ret' = 1) =>
             \A v1 \in {va'}, v2 \in Addrs :
                 (RefMapped(Cur, v2) /\ ~SamePath(v1, v2)) =>
                     \A t \in PathTables(Cur, v2) :
                         /\ heap'[t] = heap[t]
                         /\ t \notin PathTables(Cur, v1) => mem'[t] = mem[t]]_vars

\* no request has failed, two pages in different leaf tables were mapped, and
\* page_deallocate removed the last mapping: the root alone is a live table
C13_Witness ==
    /\ ~failed
    /\ op = "deallocate"
    /\ ret = 1
    /\ MappedPages(Cur) = {}
    /\ LiveTables(Cur) = {ptbr}
    /\ Cardinality({ a \in BlockAddrs : heap[a] = "page" }) >= 2
    /\ Cardinality({ a \in BlockAddrs : heap[a] = "free" }) >= 3


(***************************************************************************)
(* C14: a page_deallocate(v) that returns 1 clears v's leaf entry; a       *)
(* non-root table on v's path is freed exactly when it and every table     *)
(* below it on the path held no valid entry but the path's, and then its   *)
(* parent's entry for it is set to 0; the other tables of the path stay    *)
(* allocated, the first of them changed in the one entry that was cleared  *)
(* and in no other, and the tables above it not changed at all; the root   *)
(* is never freed.                                                         *)
(***************************************************************************)
C14_UpwardReclamation ==
    [][\A v \in Addrs :
          (op' = "deallocate" /\ va' = v /\ ret' = 1) =>
              \A T \in {RefTables(Cur, v)},
                 idx \in {[l \in 0 .. LEVELS - 1 |-> RefIndex(v, l)]} :
                  LET Emptied(l) ==
                          \A k \in 0 .. l : ValidIndices(Cur, T[k]) = {idx[k]}
                      Freed(l) == l < LEVELS - 1 /\ Emptied(l)
                  IN  \A l \in 0 .. LEVELS - 1 :
                          /\ Freed(l) <=> heap'[T[l]] = "free"
                          /\ ~Freed(l) =>
                                /\ heap'[T[l]] = "table"
                                /\ \A i \in Indices \ {idx[l]} :
                                      mem'[T[l]][i] = mem[T[l]][i]
                                /\ mem'[T[l]][idx[l]] =
                                      IF l = 0 \/ Emptied(l - 1) THEN 0
                                      ELSE mem[T[l]][idx[l]]]_vars

\* page_deallocate freed the leaf table of its address and cleared the entry
\* for it in the level-1 table, which holds the path of another mapping
C14_Witness ==
    /\ op = "deallocate"
    /\ ret = 1
    /\ RefValidLevels(Cur, va) = {LEVELS - 1}
    /\ \E v \in Addrs :
          RefMapped(Cur, v) /\ RefTables(Cur, v)[1] = RefTables(Cur, va)[1]


(***************************************************************************)
(* C15: a page_allocate(v) all of whose requests succeed obtains one block *)
(* for the root if ptbr is 0, then one for every level whose entry on v's  *)
(* path is not valid (a table for the levels LEVELS-1..1, the data page    *)
(* for level 0), in that order, and no other; the blocks were free and are *)
(* distinct; each is installed with the validity bit in the entry of its   *)
(* level on v's path, which was not valid; every other entry of a new      *)
(* block is 0, and no other entry of any block changes.                    *)
(***************************************************************************)
C15_CreatesMissing ==
    [][\A v \in Addrs :
          (/\ op' = "allocate"
           /\ va' = v
           /\ \A k \in 1 .. Len(allocs') : allocs'[k] # 0) =>
              \A post \in {After}, valid \in {RefValidLevels(Cur, v)} :
                  LET root == IF ptbr = 0 THEN 1 ELSE 0
                      missing == (0 .. LEVELS - 1) \ valid
                      m == Cardinality(missing)
                      new == { allocs'[k] : k \in 1 .. Len(allocs') }
                      \* the request that served level l
                      at(l) == allocs'[root + (m - l)]
                      installed ==
                          { <<RefTables(post, v)[l], RefIndex(v, l)>> : l \in missing }
                  IN  /\ Len(allocs') = root + m
                      /\ Cardinality(new) = Len(allocs')
                      /\ \A a \in new : heap[a] = "free"
                      /\ ptbr' = IF ptbr = 0 THEN allocs'[1] ELSE ptbr
                      /\ \A a \in BlockAddrs :
                            heap'[a] = IF a \notin new THEN heap[a]
                                       ELSE IF 0 \in missing /\ a = at(0)
                                            THEN "page" ELSE "table"
                      /\ \A l \in missing :
                            /\ RefEntry(post, v, l) = at(l) + VALID_FLAG
                            /\ RefTables(post, v)[l] \notin new =>
                                  ~RefValid(RefEntry(Cur, v, l))
                      /\ \A a \in BlockAddrs, i \in Indices :
                            <<a, i>> \notin installed =>
                                mem'[a][i] = IF a \in new THEN 0 ELSE mem[a][i]]_vars

\* a page_allocate that found the root and the level-1 table of its address,
\* which hold the path of another mapping, and built the leaf table and the page
C15_Witness ==
    /\ op = "allocate"
    /\ Len(allocs) = 2
    /\ AllSucceeded
    /\ heap[allocs[1]] = "table"
    /\ heap[allocs[2]] = "page"
    /\ \E v \in Addrs :
          /\ RefMapped(Cur, v)
          /\ RefTables(Cur, v)[1] = RefTables(Cur, va)[1]
          /\ RefTables(Cur, v)[0] # RefTables(Cur, va)[0]


\* entry e is 0, or has the validity bit, no other bit below bit POBITS, and
\* the address of an allocated block
WellFormedEntry(s, e) ==
    \/ e = 0
    \/ /\ e % PAGE_SIZE = VALID_FLAG
       /\ RefAddr(e) \in BlockAddrs
       /\ s.heap[RefAddr(e)] # "free"

(***************************************************************************)
(* C16: in every reachable state every entry of every live table, the root *)
(* included, is either 0 or has the validity bit set, bits 1..POBITS-1     *)
(* clear and the address of a block obtained from the allocator (and still *)
(* allocated).  The leaf entry a page_deallocate clears reads exactly 0,   *)
(* and of a table a page_allocate created every entry reads invalid (0)    *)
(* but the one the same call installed on its address's path.              *)
(***************************************************************************)
C16_EntryEncoding ==
    /\ [](\A a \in LiveTables(Cur), i \in Indices :
              WellFormedEntry(Cur, mem[a][i]))
    /\ [][\A v \in Addrs :
             /\ (op' = "deallocate" /\ va' = v /\ ret' = 1) =>
                   \A t \in {RefTables(Cur, v)[0]} :
                       heap'[t] = "table" => mem'[t][RefIndex(v, 0)] = 0
             /\ (op' = "allocate" /\ va' = v) =>
                   \A post \in {After} :
                       \A k \in 1 .. Len(allocs'), i \in Indices :
                           (allocs'[k] # 0 /\ mem'[allocs'[k]][i] # 0) =>
                               \E l \in 0 .. LEVELS - 1 :
                                   /\ allocs'[k] = RefTables(post, v)[l]
                                   /\ i = RefIndex(v, l)]_vars

\* page_deallocate cleared an entry of a leaf table that holds another mapping
C16_Witness ==
    /\ op = "deallocate"
    /\ ret = 1
    /\ RefValidLevels(Cur, va) = 1 .. LEVELS - 1
    /\ RefEntry(Cur, va, 0) = 0
    /\ ValidIndices(Cur, RefTables(Cur, va)[0]) # {}


\* ptbr and every valid entry reached from it name an allocated block: a table
\* at the levels >= 1, a data page at level 0
NoDangling(s) ==
    /\ s.ptbr # 0 => Live(s, s.ptbr) /\ s.heap[s.ptbr] = "table"
    /\ ChildrenLive(s)
    /\ \A p \in MappedPages(s) : Live(s, p) /\ s.heap[p] = "page"

(***************************************************************************)
(* C17: in every reachable state ptbr, when it is not 0, and every valid   *)
(* entry reached from the root name a block that is allocated, so the      *)
(* tables a walk from ptbr along any address reads or writes are           *)
(* allocated; no call has passed to free a block that was not allocated    *)
(* (none is freed twice), nor scanned or written a table in its clean-up   *)
(* after freeing it; and a block is freed only by page_deallocate, as an   *)
(* allocated non-root table on the path of its address.                    *)
(***************************************************************************)
C17_NoDanglingNoDoubleFree ==
    /\ [](/\ NoDangling(Cur)
          /\ \A v \in Addrs : \A t \in PathTables(Cur, v) : Live(Cur, t)
          /\ ~fault)
    /\ [][\A a \in BlockAddrs :
             (heap[a] # "free" /\ heap'[a] = "free") =>
                 /\ op' = "deallocate"
                 /\ heap[a] = "table"
                 /\ a \in PathTables(Cur, va') \ {ptbr}]_vars

\* page_deallocate freed both tables below the root, in a heap where blocks
\* stay allocated
C17_Witness ==
    /\ op = "deallocate"
    /\ ret = 1
    /\ ValidIndices(Cur, ptbr) = {}
    /\ Cardinality({ a \in BlockAddrs : heap[a] = "free" }) >= LEVELS - 1
    /\ \E a \in BlockAddrs : heap[a] = "page"


\* the tables reached from ptbr, at any level
ReachedTables(s) == UNION { TablesAt(s, l) : l \in 0 .. LEVELS - 1 }

\* the valid entries of reached tables that name block a
Referrers(s, a) ==
    { e \in ReachedTables(s) \X Indices :
        /\ RefValid(RefLoad(s, e[1], e[2]))
        /\ RefAddr(RefLoad(s, e[1], e[2])) = a }

\* each allocated block is named by at most one valid entry reached from the
\* root and the root by none; no table serves at two levels, nor as a page
TableTree(s) ==
    /\ \A a \in BlockAddrs : Live(s, a) => Cardinality(Referrers(s, a)) <= 1
    /\ s.ptbr # 0 => Referrers(s, s.ptbr) = {}
    /\ \A l1, l2 \in 0 .. LEVELS - 1 :
          l1 # l2 => TablesAt(s, l1) \cap TablesAt(s, l2) = {}
    /\ MappedPages(s) \cap ReachedTables(s) = {}
    /\ \A a \in MappedPages(s) : s.heap[a] = "page"
    /\ \A a \in ReachedTables(s) : s.heap[a] = "table"

(***************************************************************************)
(* C18 as stated: the allocator handing out only blocks that are not       *)
(* allocated, in every reachable state each allocated block is named by at *)
(* most one valid entry reached from the root and the root by none, no     *)
(* block is both a table and a mapped page, and two mapped addresses on    *)
(* distinct virtual pages (their page numbers v / PAGE_SIZE differ) never  *)
(* translate into the same physical page.                                  *)
(***************************************************************************)
C18_InjectiveTree ==
    /\ TableTree(Cur)
    /\ \A v1, v2 \in Addrs :
          (/\ ~SamePage(v1, v2)
           /\ Translation(v1) # ALL_ONES
           /\ Translation(v2) # ALL_ONES) =>
              RefAddr(Translation(v1)) # RefAddr(Translation(v2))

(***************************************************************************)
(* C18 amended: every request to the allocator that succeeds hands out a   *)
(* block that was not allocated; and the same holds as in C18 as stated,   *)
(* for two mapped addresses that differ in some level index, that is in    *)
(* the bits POBITS .. POBITS+LEVELS*BITS_PER_LEVEL - 1: they never         *)
(* translate into the same physical page.                                  *)
(***************************************************************************)
C18_InjectiveTreeIndexed ==
    /\ [][\A k \in 1 .. Len(allocs') :
             allocs'[k] # 0 => heap[allocs'[k]] = "free"]_vars
    /\ [](/\ TableTree(Cur)
          /\ \A v1, v2 \in Addrs :
                (/\ ~SamePath(v1, v2)
                 /\ Translation(v1) # ALL_ONES
                 /\ Translation(v2) # ALL_ONES) =>
                    RefAddr(Translation(v1)) # RefAddr(Translation(v2)))

\* two pages are mapped through different leaf tables under one level-1 table
C18_Witness ==
    \E v1, v2 \in Addrs :
        /\ Translation(v1) # ALL_ONES
        /\ Translation(v2) # ALL_ONES
        /\ RefTables(Cur, v1)[1] = RefTables(Cur, v2)[1]
        /\ RefTables(Cur, v1)[0] # RefTables(Cur, v2)[0]
        /\ RefAddr(Translation(v1)) # RefAddr(Translation(v2))


\* what page_deallocate(v1) may write: in the tables it leaves allocated, v1's
\* leaf entry and the entries for the tables it freed; nothing if it returns 0
DeallocateWritesOnly(v1) ==
    \A T \in {RefTables(Cur, v1)} :
        \A a \in BlockAddrs, i \in Indices :
            (heap'[a] # "free" /\ mem'[a][i] # mem[a][i]) =>
                /\ ret' = 1
                /\ mem'[a][i] = 0
                /\ \E l \in 0 .. LEVELS - 1 :
                      /\ a = T[l]
                      /\ i = RefIndex(v1, l)
                      /\ l = 0 \/ heap'[T[l - 1]] = "free"

(***************************************************************************)
(* C19 as stated: for every mapped v2 and every v1 on a different virtual  *)
(* page (their page numbers v / PAGE_SIZE differ), page_deallocate(v1),    *)
(* whatever it returns, leaves translate(v2) as it was; and the only       *)
(* entries it writes are the leaf entry of v1 and the parent entries of    *)
(* the tables it frees.                                                    *)
(***************************************************************************)
C19_DeallocateIndependent ==
    [][\A v1 \in Addrs :
          (op' = "deallocate" /\ va' = v1) =>
              \A post \in {After} :
                  /\ \A v2 \in Addrs :
                        (~SamePage(v1, v2) /\ Translation(v2) # ALL_ONES) =>
                            translate(post, v2) = Translation(v2)
                  /\ DeallocateWritesOnly(v1)]_vars

(***************************************************************************)
(* C19 amended: the same for every mapped v2 and every v1 that differs     *)
(* from v2 in some level index, that is in the bits POBITS ..              *)
(* POBITS+LEVELS*BITS_PER_LEVEL - 1.                                       *)
(***************************************************************************)
C19_DeallocateIndependentIndexed ==
    [][\A v1 \in Addrs :
          (op' = "deallocate" /\ va' = v1) =>
              \A post \in {After} :
                  /\ \A v2 \in Addrs :
                        (~SamePath(v1, v2) /\ Translation(v2) # ALL_ONES) =>
                            translate(post, v2) = Translation(v2)
                  /\ DeallocateWritesOnly(v1)]_vars

\* page_deallocate unmapped its address and a page mapped through the same
\* leaf table is still mapped
C19_Witness ==
    /\ op = "deallocate"
    /\ ret = 1
    /\ Translation(va) = ALL_ONES
    /\ \E v \in Addrs :
          /\ Translation(v) # ALL_ONES
          /\ RefTables(Cur, v)[0] = RefTables(Cur, va)[0]


\* the number of address bits the walk uses
IndexedBits == POBITS + LEVELS * BITS_PER_LEVEL

\* the addresses that agree with v in the low IndexedBits bits
Aliases(v) ==
    { (v % 2 ^ IndexedBits) + h * 2 ^ IndexedBits : h \in 0 .. 2 ^ HighBits - 1 }

\* every level index of every address is below ENTRIES_PER_TABLE, and
\* is_address_valid accepts every address
AllIndicesInRange ==
    \A a \in Word :
        /\ \A l \in 0 .. LEVELS - 1 : extract_level_index(a, l) < ENTRIES_PER_TABLE
        /\ is_address_valid(a)

(***************************************************************************)
(* C20: every level index extracted from any address is below              *)
(* ENTRIES_PER_TABLE, so is_address_valid accepts every address; in every  *)
(* reachable state translate, page_allocate and page_deallocate do the     *)
(* same for the address va of the last call and every address that differs *)
(* from it only above the low POBITS + LEVELS*BITS_PER_LEVEL bits (va is   *)
(* any address in any state of memory: translate(v) can follow every state *)
(* and changes none); so a page_allocate whose requests succeed maps every *)
(* such alias of its address to the same physical address, and a           *)
(* page_deallocate that returns 1 unmaps every alias.                      *)
(***************************************************************************)
C20_HighBitsIgnored ==
    /\ [](/\ AllIndicesInRange
          /\ \A w \in Aliases(va) \ {va} :
                /\ translate(Cur, w) = translate(Cur, va)
                /\ page_deallocate(Cur, w) = page_deallocate(Cur, va)
                /\ page_allocate(Cur, w) = page_allocate(Cur, va))
    /\ [][/\ (/\ op' = "allocate"
               /\ \A k \in 1 .. Len(allocs') : allocs'[k] # 0) =>
                  \A post \in {After}, w \in Aliases(va') :
                      /\ translate(post, w) # ALL_ONES
                      /\ translate(post, w) = translate(post, va')
          /\ (op' = "deallocate" /\ ret' = 1) =>
                  \A post \in {After}, w \in Aliases(va') :
                      translate(post, w) = ALL_ONES]_vars

\* page_deallocate of an address with no bit above the indexed range returned
\* 1, and every alias of the address is unmapped
C20_Witness ==
    /\ op = "deallocate"
    /\ ret = 1
    /\ va < 2 ^ IndexedBits
    /\ \E a \in BlockAddrs : heap[a] = "page"
    /\ \A w \in Aliases(va) : Translation(w) = ALL_ONES


=============================================================================
